---- MODULE Spec2Model ----
(***************************************************************************)
(* Model of the ffmpeg-tools Raycast extension: six forms (resolution-video,*)
(* resize-image, resize, speed, convert, compress), each of which compiles  *)
(* its form values into an ffmpeg argument vector and an output path, spawns*)
(* one ffmpeg process and reports its outcome in a toast.                   *)
(*                                                                         *)
(* Strings are sequences of one-character strings, so that concatenation,  *)
(* path manipulation and the regular expressions of the source are computed*)
(* character by character.                                                  *)
(***************************************************************************)
EXTENDS Integers, Sequences, FiniteSets, TLC

VARIABLES cmd, defaultFile, fileType, clipboard, jobs

vars == <<cmd, defaultFile, fileType, clipboard, jobs>>

\* ------------------------------------------------------------------------
\* Bounds of the model
\* ------------------------------------------------------------------------
MaxJobs == 2
MaxChunks == 2

\* ------------------------------------------------------------------------
\* JavaScript values
\* ------------------------------------------------------------------------
\* undefined: the value of a text or dropdown field that is not rendered, and
\* of inputFile[0] when no file is selected.  It is a one-element tuple whose
\* element is no character, so it differs from every string.  (A checkbox
\* that is not rendered is modelled as FALSE: the code only tests checkbox
\* values for truthiness.)
Undef == <<"undefined">>

Empty == <<>>

\* `${v}`: template-literal conversion of a string or undefined.
Tpl(v) == IF v = Undef THEN <<"u","n","d","e","f","i","n","e","d">> ELSE v

\* A test against undefined alone, which the empty string passes
TruthyUnlessUndefined(v) == v # Undef

\* JavaScript truthiness of a string | undefined form value.
Truthy(v) == v # Undef /\ v # Empty

\* The fallback whatever was typed
OrElseDefault(a, b) == b

\* a || b
OrElse(a, b) == IF Truthy(a) THEN a ELSE b

UpperChars == <<"A","B","C","D","E","F","G","H","I","J","K","L","M",
                "N","O","P","Q","R","S","T","U","V","W","X","Y","Z">>
LowerChars == <<"a","b","c","d","e","f","g","h","i","j","k","l","m",
                "n","o","p","q","r","s","t","u","v","w","x","y","z">>
DigitChars == <<"0","1","2","3","4","5","6","7","8","9">>

Range(s) == {s[i] : i \in DOMAIN s}

\* String.prototype.toLowerCase
LowerOf ==
    [c \in Range(UpperChars) |->
        LowerChars[CHOOSE k \in DOMAIN UpperChars : UpperChars[k] = c]]

ToLowerCase(s) ==
    [i \in DOMAIN s |-> IF s[i] \in DOMAIN LowerOf THEN LowerOf[s[i]] ELSE s[i]]

EndsWith(s, suf) ==
    /\ Len(suf) <= Len(s)
    /\ SubSeq(s, Len(s) - Len(suf) + 1, Len(s)) = suf

StartsWith(s, pre) ==
    /\ Len(pre) <= Len(s)
    /\ SubSeq(s, 1, Len(pre)) = pre

\* ------------------------------------------------------------------------
\* Node's path module (posix)
\* ------------------------------------------------------------------------
\* Largest index of character c in s, 0 when absent.
LastIndexOf(s, c) ==
    IF \E i \in DOMAIN s : s[i] = c
    THEN CHOOSE i \in DOMAIN s : s[i] = c /\ \A j \in DOMAIN s : s[j] = c => j <= i
    ELSE 0

\* s without its trailing slashes (a lone "/" is kept by the callers).
RECURSIVE StripTrailingSlashes(_)
StripTrailingSlashes(s) ==
    IF Len(s) > 1 /\ s[Len(s)] = "/"
    THEN StripTrailingSlashes(SubSeq(s, 1, Len(s) - 1))
    ELSE s

\* The last component of the path.
LastComponent(p) ==
    LET q == StripTrailingSlashes(p)
        k == LastIndexOf(q, "/")
    IN  IF q = <<"/">> THEN Empty ELSE SubSeq(q, k + 1, Len(q))

\* path.extname: from the last dot of the last component; empty when there is
\* no dot, when the dot is the first character, or for "..".
extname(p) ==
    LET b == LastComponent(p)
        k == LastIndexOf(b, ".")
    IN  IF k <= 1 \/ b = <<".", ".">> THEN Empty ELSE SubSeq(b, k, Len(b))

\* path.basename(p, ext)
basename(p, ext) ==
    LET b == LastComponent(p)
    IN  IF ext # Empty /\ EndsWith(b, ext) /\ b # ext
        THEN SubSeq(b, 1, Len(b) - Len(ext))
        ELSE b

\* path.dirname
dirname(p) ==
    LET q == StripTrailingSlashes(p)
        k == LastIndexOf(q, "/")
    IN  IF k = 0 THEN <<".">>
        ELSE IF StripTrailingSlashes(SubSeq(q, 1, k)) = <<"/">> THEN <<"/">>
        ELSE StripTrailingSlashes(SubSeq(q, 1, k - 1))

\* s split at every "/".
RECURSIVE SplitSlash(_)
SplitSlash(s) ==
    IF \A i \in DOMAIN s : s[i] # "/" THEN <<s>>
    ELSE LET k == CHOOSE i \in DOMAIN s :
                      s[i] = "/" /\ \A j \in DOMAIN s : s[j] = "/" => i <= j
         IN  <<SubSeq(s, 1, k - 1)>> \o SplitSlash(SubSeq(s, k + 1, Len(s)))

\* normalizeString: drops empty and "." segments and resolves "..".
RECURSIVE NormalizeSegments(_, _, _)
NormalizeSegments(segs, acc, isAbsolute) ==
    IF segs = <<>> THEN acc
    ELSE LET h == Head(segs)
             t == Tail(segs)
         IN  IF h = Empty \/ h = <<".">>
             THEN NormalizeSegments(t, acc, isAbsolute)
             ELSE IF h = <<".", ".">>
             THEN IF acc # <<>> /\ acc[Len(acc)] # <<".", ".">>
                  THEN NormalizeSegments(t, SubSeq(acc, 1, Len(acc) - 1), isAbsolute)
                  ELSE IF isAbsolute
                  THEN NormalizeSegments(t, acc, isAbsolute)
                  ELSE NormalizeSegments(t, Append(acc, h), isAbsolute)
             ELSE NormalizeSegments(t, Append(acc, h), isAbsolute)

RECURSIVE JoinSlash(_)
JoinSlash(segs) ==
    IF segs = <<>> THEN Empty
    ELSE IF Len(segs) = 1 THEN segs[1]
    ELSE segs[1] \o <<"/">> \o JoinSlash(Tail(segs))

\* path.normalize
normalize(p) ==
    IF p = Empty THEN <<".">>
    ELSE LET isAbsolute == p[1] = "/"
             trailing == p[Len(p)] = "/"
             body == JoinSlash(NormalizeSegments(SplitSlash(p), <<>>, isAbsolute))
         IN  IF body = Empty
             THEN (IF isAbsolute THEN <<"/">> ELSE IF trailing THEN <<".", "/">> ELSE <<".">>)
             ELSE (IF isAbsolute THEN <<"/">> ELSE Empty) \o body
                  \o (IF trailing THEN <<"/">> ELSE Empty)

\* path.join(a, b)
join(a, b) ==
    IF a = Empty /\ b = Empty THEN <<".">>
    ELSE IF a = Empty THEN normalize(b)
    ELSE IF b = Empty THEN normalize(a)
    ELSE normalize(a \o <<"/">> \o b)


\* ------------------------------------------------------------------------
\* JavaScript numbers, as far as the speed form uses them: NaN, or a rational
\* n/d in lowest terms with d > 0
\* ------------------------------------------------------------------------
NaN == [kind |-> "nan", n |-> 0, d |-> 1]

Abs(i) == IF i < 0 THEN -i ELSE i

RECURSIVE Gcd(_, _)
Gcd(a, b) == IF b = 0 THEN a ELSE Gcd(b, a % b)

Rational(n, d) ==
    LET g == Gcd(Abs(n), d)
    IN  [kind |-> "num", n |-> n \div g, d |-> d \div g]

RECURSIVE Pow10(_)
Pow10(k) == IF k = 0 THEN 1 ELSE 10 * Pow10(k - 1)

IsDigit(c) == \E k \in DOMAIN DigitChars : DigitChars[k] = c

DigitValue(c) == (CHOOSE k \in DOMAIN DigitChars : DigitChars[k] = c) - 1

\* Number of digit characters of s starting at position i.
RECURSIVE DigitRun(_, _)
DigitRun(s, i) ==
    IF i <= Len(s) /\ IsDigit(s[i]) THEN 1 + DigitRun(s, i + 1) ELSE 0

RECURSIVE DigitsToInt(_)
DigitsToInt(s) ==
    IF s = <<>> THEN 0
    ELSE 10 * DigitsToInt(SubSeq(s, 1, Len(s) - 1)) + DigitValue(s[Len(s)])

RECURSIVE TrimLeft(_)
TrimLeft(s) == IF s # <<>> /\ s[1] = " " THEN TrimLeft(Tail(s)) ELSE s

\* parseFloat: the longest decimal prefix after leading blanks; NaN when there
\* is none.  (Exponents and "Infinity" are not among the modelled inputs.)
parseFloat(v) ==
    LET s == TrimLeft(Tpl(v))
        signed == s # <<>> /\ s[1] \in {"-", "+"}
        u == IF signed THEN Tail(s) ELSE s
        ni == DigitRun(u, 1)
        hasDot == Len(u) > ni /\ u[ni + 1] = "."
        nf == IF hasDot THEN DigitRun(u, ni + 2) ELSE 0
        mant == DigitsToInt(SubSeq(u, 1, ni) \o SubSeq(u, ni + 2, ni + 1 + nf))
    IN  IF ni + nf = 0 THEN NaN
        ELSE Rational(IF signed /\ s[1] = "-" THEN -mant ELSE mant, Pow10(nf))

\* The factor itself where its reciprocal is due
ReciprocalOmitted(x) == x

\* 1 / x for a nonzero number x
Reciprocal(x) ==
    IF x.kind = "nan" THEN NaN
    ELSE IF x.n = 0 THEN [kind |-> "inf", n |-> 1, d |-> 1]
    ELSE Rational(IF x.n < 0 THEN -x.d ELSE x.d, Abs(x.n))

\* a !== b on numbers (NaN differs from everything, itself included)
NumDiffers(a, b) == a.kind = "nan" \/ b.kind = "nan" \/ a # b

RECURSIVE NatToString(_)
NatToString(k) ==
    IF k < 10 THEN <<DigitChars[k + 1]>>
    ELSE NatToString(k \div 10) \o <<DigitChars[(k % 10) + 1]>>

\* Number of fractional digits a double prints for a non-terminating fraction
\* of magnitude near one (1/3 prints as 0.3333333333333333).
FractionDigits == 16

\* The first digits of rem/d after the decimal point, trailing zeros dropped.
RECURSIVE FractionString(_, _, _)
FractionString(rem, d, left) ==
    IF rem = 0 \/ left = 0 THEN <<>>
    ELSE LET q == (rem * 10) \div d
             rest == FractionString((rem * 10) % d, d, left - 1)
         IN  IF q = 0 /\ rest = <<>> THEN <<>> ELSE <<DigitChars[q + 1]>> \o rest

\* `${x}` for a number
NumToString(x) ==
    IF x.kind = "nan" THEN <<"N","a","N">>
    ELSE IF x.kind = "inf" THEN <<"I","n","f","i","n","i","t","y">>
    ELSE LET a == Abs(x.n)
             frac == FractionString(a % x.d, x.d, FractionDigits)
         IN  (IF x.n < 0 THEN <<"-">> ELSE Empty)
             \o NatToString(a \div x.d)
             \o (IF frac = <<>> THEN Empty ELSE <<".">> \o frac)

\* ------------------------------------------------------------------------
\* Argument compilation: the part of each handleSubmit that runs before the
\* first await.  The result is the argv handed to spawn and the output path,
\* or the error thrown on the way.
\* ------------------------------------------------------------------------
Compiled(argv, outputPath) ==
    [threw |-> FALSE, error |-> Empty, argv |-> argv, outputPath |-> outputPath]

Threw(message) ==
    [threw |-> TRUE, error |-> message, argv |-> <<>>, outputPath |-> Empty]

\* args.push('-y', outputPath) with an unshift in its place
PushOutputInFront(args, outputPath) == <<<<"-","y">>, outputPath>> \o args

\* args.push('-y', outputPath)
PushOutput(args, outputPath) == args \o <<<<"-","y">>, outputPath>>

\* extname(undefined) and basename(undefined) throw this TypeError.
PathTypeError == <<"T","h","e"," ","p","a","t","h"," ","a","r","g","u","m","e","n","t"," ","m","u","s","t"," ","b","e"," ","o","f"," ","t","y","p","e"," ","s","t","r","i","n","g","."," ","R","e","c","e","i","v","e","d"," ","u","n","d","e","f","i","n","e","d">>

\* values.inputFile[0]
InputPathOf(values) ==
    IF values.inputFile = <<>> THEN Undef ELSE values.inputFile[1]

\* resolution-video
handleSubmit_resolutionVideo(values) ==
    LET inputPath == InputPathOf(values) IN
    IF inputPath = Undef THEN Threw(PathTypeError)
    ELSE
    LET extension == extname(inputPath)
        baseFileName == basename(inputPath, extension)
        resolution ==
            IF values.maintainAspectRatio
            THEN Tpl(values.width) \o <<"p">>
            ELSE Tpl(values.width) \o <<"x">> \o Tpl(values.height)
        presetSuffix ==
            IF values.preset # <<"m","e","d","i","u","m">> THEN <<".">> \o Tpl(values.preset) ELSE Empty
        outputPath ==
            join(dirname(inputPath),
                 baseFileName \o <<".">> \o resolution \o presetSuffix \o extension)
        scaleFilter ==
            IF values.maintainAspectRatio
            THEN <<"s","c","a","l","e","=">> \o Tpl(values.width) \o <<":","-","2",":","f","l","a","g","s","=">> \o Tpl(values.filter)
            ELSE <<"s","c","a","l","e","=">> \o Tpl(values.width) \o <<":">> \o Tpl(values.height)
                 \o <<":","f","l","a","g","s","=">> \o Tpl(values.filter)
        args == <<<<"-","i">>, inputPath, <<"-","v","f">>, scaleFilter, <<"-","p","r","e","s","e","t">>, values.preset>>
                \o (IF values.keepAudioBitrate
                    THEN <<<<"-","c",":","a">>, <<"c","o","p","y">>>> ELSE <<>>)
    IN  Compiled(PushOutput(args, outputPath), outputPath)

\* resize-image
handleSubmit_resizeImage(values) ==
    LET inputPath == InputPathOf(values) IN
    IF inputPath = Undef THEN Threw(PathTypeError)
    ELSE
    LET extension == extname(inputPath)
        baseFileName == basename(inputPath, extension)
        resolution ==
            IF values.maintainAspectRatio
            THEN Tpl(values.width) \o <<"w">>
            ELSE Tpl(values.width) \o <<"x">> \o Tpl(values.height)
        qualitySuffix ==
            IF Truthy(values.quality) THEN <<".","q">> \o Tpl(values.quality) ELSE Empty
        outputPath ==
            join(dirname(inputPath),
                 baseFileName \o <<".">> \o resolution \o qualitySuffix \o extension)
        scaleFilter ==
            IF values.maintainAspectRatio
            THEN <<"s","c","a","l","e","=">> \o Tpl(values.width) \o <<":","-","1",":","f","l","a","g","s","=">> \o Tpl(values.filter)
            ELSE <<"s","c","a","l","e","=">> \o Tpl(values.width) \o <<":">> \o Tpl(values.height)
                 \o <<":","f","l","a","g","s","=">> \o Tpl(values.filter)
        args == <<<<"-","i">>, inputPath, <<"-","v","f">>, scaleFilter>>
                \o (IF Truthy(values.quality)
                    THEN <<<<"-","q",":","v">>, values.quality>> ELSE <<>>)
    IN  Compiled(PushOutput(args, outputPath), outputPath)

\* The characters kept by resolution.replace(/[^a-zA-Z\.-]/g, '')
IsSafeCharNoDigits(c) == c \in Range(LowerChars) \cup Range(UpperChars) \cup {".", "-"}

\* The characters kept by resolution.replace(/[^a-zA-Z0-9\.-]/g, '')
SafeChars ==
    Range(LowerChars) \cup Range(UpperChars) \cup Range(DigitChars) \cup {".", "-"}

IsSafeChar(c) == c \in SafeChars

\* resize (the unified command)
handleSubmit_resize(values) ==
    LET inputPath == InputPathOf(values) IN
    IF inputPath = Undef THEN Threw(PathTypeError)
    ELSE
    LET extension == extname(inputPath)
        baseFileName == basename(inputPath, extension)
        explicit == Truthy(values.height) /\ ~values.maintainAspectRatio
        resolution ==
            IF values.fileType = "video" THEN Tpl(values.width) \o <<"p">>
            ELSE IF explicit THEN Tpl(values.width) \o <<"x">> \o Tpl(values.height)
            ELSE Tpl(values.width) \o <<"w">>
        scaleFilter ==
            IF values.fileType = "video"
            THEN <<"s","c","a","l","e","=">> \o Tpl(values.width) \o <<":","-","2",":","f","l","a","g","s","=">> \o Tpl(values.filter)
            ELSE IF explicit
            THEN <<"s","c","a","l","e","=">> \o Tpl(values.width) \o <<":">> \o Tpl(values.height)
                 \o <<":","f","l","a","g","s","=">> \o Tpl(values.filter)
            ELSE <<"s","c","a","l","e","=">> \o Tpl(values.width) \o <<":","-","1",":","f","l","a","g","s","=">> \o Tpl(values.filter)
        qualitySuffix ==
            IF values.fileType = "image" /\ Truthy(values.quality)
            THEN <<".","q">> \o Tpl(values.quality) ELSE Empty
        presetSuffix ==
            IF values.fileType = "video" /\ values.preset # <<"m","e","d","i","u","m">>
            THEN <<".">> \o Tpl(values.preset) ELSE Empty
        sanitizedResolution == SelectSeq(resolution, IsSafeChar)
        outputPath ==
            join(dirname(inputPath),
                 baseFileName \o <<".">> \o sanitizedResolution \o qualitySuffix
                 \o presetSuffix \o extension)
        args == <<<<"-","i">>, inputPath, <<"-","v","f">>, scaleFilter>>
                \o (IF values.fileType = "image" /\ Truthy(values.quality)
                    THEN <<<<"-","q",":","v">>, values.quality>>
                    ELSE IF values.fileType = "video"
                    THEN <<<<"-","p","r","e","s","e","t">>, OrElse(values.preset, <<"m","e","d","i","u","m">>)>>
                         \o (IF values.keepAudioBitrate
                             THEN <<<<"-","c",":","a">>, <<"c","o","p","y">>>> ELSE <<>>)
                    ELSE <<>>)
    IN  Compiled(PushOutput(args, outputPath), outputPath)

\* speed
handleSubmit_speed(values, ft) ==
    LET inputPath == InputPathOf(values) IN
    IF inputPath = Undef THEN Threw(PathTypeError)
    ELSE
    LET extension == extname(inputPath)
        baseFileName == basename(inputPath, extension)
        speed == parseFloat(values.speed)
        audioSpeed ==
            IF Truthy(values.customAudioSpeed)
            THEN parseFloat(values.customAudioSpeed) ELSE speed
        videoSuffix ==
            NumToString(speed) \o <<"x">>
            \o (IF NumDiffers(audioSpeed, speed)
                THEN <<".","a">> \o NumToString(audioSpeed) \o <<"x">> ELSE Empty)
            \o (IF values.maintainPitch THEN <<".","p","i","t","c","h">> ELSE Empty)
        pts == Reciprocal(speed)
        videoFilter == <<"s","e","t","p","t","s","=">> \o NumToString(pts) \o <<"*","P","T","S">>
        audioFilter ==
            IF values.maintainPitch
            THEN <<"a","s","e","t","r","a","t","e","=","4","4","1","0","0","*">> \o NumToString(audioSpeed)
                 \o <<",","a","r","e","s","a","m","p","l","e","=","4","4","1","0","0",",","a","t","e","m","p","o","=","1">>
            ELSE <<"a","t","e","m","p","o","=">> \o NumToString(audioSpeed)
        speedSuffix == IF ft = "video" THEN videoSuffix ELSE NumToString(speed) \o <<"x">>
        outputPath ==
            join(dirname(inputPath), baseFileName \o <<".">> \o speedSuffix \o extension)
        ffmpegArgs ==
            IF ft = "video"
            THEN <<<<"-","i">>, inputPath, <<"-","f","i","l","t","e","r",":","v">>, videoFilter,
                   <<"-","f","i","l","t","e","r",":","a">>, audioFilter>>
            ELSE <<<<"-","i">>, inputPath, <<"-","f","i","l","t","e","r",":","a">>,
                   <<"a","t","e","m","p","o","=">> \o NumToString(speed)>>
    IN  Compiled(PushOutput(ffmpegArgs, outputPath), outputPath)

\* convert
handleSubmit_convert(values, ft) ==
    LET inputPath == InputPathOf(values) IN
    IF inputPath = Undef THEN Threw(PathTypeError)
    ELSE
    LET baseFileName == basename(inputPath, extname(inputPath))
        isX26x == values.codec \in {<<"l","i","b","x","2","6","4">>, <<"l","i","b","x","2","6","5">>}
        \* <<pushed args, appended name suffix>> of the branch taken
        branch ==
            IF ft = "video" THEN
                IF values.codec = <<"l","i","b","v","p","x","-","v","p","9">> THEN
                    IF ~values.maintainQuality
                    THEN << <<<<"-","c",":","v">>, <<"l","i","b","v","p","x","-","v","p","9">>, <<"-","b",":","v">>, <<"0">>,
                              <<"-","c","r","f">>, OrElse(values.quality, <<"3","0">>),
                              <<"-","r","o","w","-","m","t">>, <<"1">>, <<"-","c",":","a">>, <<"l","i","b","o","p","u","s">>>>,
                            <<".">> \o Tpl(values.codec) \o <<".","q">>
                            \o Tpl(OrElse(values.quality, <<"3","0">>)) >>
                    ELSE << <<<<"-","c",":","v">>, <<"l","i","b","v","p","x","-","v","p","9">>, <<"-","b",":","v">>, <<"0">>,
                              <<"-","c","r","f">>, <<"0">>, <<"-","r","o","w","-","m","t">>, <<"1">>, <<"-","c","p","u","-","u","s","e","d">>, <<"0">>,
                              <<"-","c",":","a">>, <<"l","i","b","o","p","u","s">>>>,
                            <<".">> \o Tpl(values.codec) \o <<".","l","o","s","s","l","e","s","s">> >>
                ELSE IF Truthy(values.codec) /\ values.codec # <<"c","o","p","y">> THEN
                    IF ~values.maintainQuality
                    THEN << <<<<"-","c",":","v">>, values.codec>>
                            \o (IF isX26x
                                THEN <<<<"-","c","r","f">>, OrElse(values.quality, <<"2","3">>)>>
                                ELSE <<>>)
                            \o <<<<"-","c",":","a">>, <<"c","o","p","y">>>>,
                            <<".">> \o Tpl(values.codec)
                            \o (IF isX26x
                                THEN <<".","q">> \o Tpl(OrElse(values.quality, <<"2","3">>))
                                ELSE Empty) >>
                    ELSE << <<<<"-","c",":","v">>, values.codec>>
                            \o (IF isX26x
                                THEN <<<<"-","c","r","f">>, <<"0">>, <<"-","p","r","e","s","e","t">>, <<"v","e","r","y","s","l","o","w">>>>
                                ELSE <<>>)
                            \o <<<<"-","c",":","a">>, <<"c","o","p","y">>>>,
                            <<".">> \o Tpl(values.codec)
                            \o (IF isX26x THEN <<".","l","o","s","s","l","e","s","s">> ELSE Empty) >>
                ELSE << <<<<"-","c",":","v">>, <<"c","o","p","y">>, <<"-","c",":","a">>, <<"c","o","p","y">>>>, Empty >>
            ELSE IF ft = "audio" THEN
                IF ~values.maintainQuality
                THEN IF Truthy(values.quality)
                     THEN << <<<<"-","b",":","a">>, Tpl(values.quality) \o <<"k">>>>,
                             <<".">> \o Tpl(values.quality) \o <<"k">> >>
                     ELSE << <<>>, Empty >>
                ELSE << <<<<"-","c",":","a">>, <<"f","l","a","c">>, <<"-","c","o","m","p","r","e","s","s","i","o","n","_","l","e","v","e","l">>, <<"1","2">>>>,
                        <<".","l","o","s","s","l","e","s","s">> >>
            ELSE IF ft = "image" THEN
                IF ~values.maintainQuality
                THEN IF Truthy(values.quality)
                     THEN << <<<<"-","q",":","v">>, values.quality>>,
                             <<".","q">> \o Tpl(values.quality) >>
                     ELSE << <<>>, Empty >>
                ELSE << <<<<"-","q",":","v">>, <<"1">>>>, <<".","m","a","x">> >>
            ELSE << <<>>, Empty >>
        outputName == baseFileName \o branch[2]
        outputPath ==
            join(dirname(inputPath), outputName \o <<".">> \o Tpl(values.format))
    IN  Compiled(PushOutput(<<<<"-","i">>, inputPath>> \o branch[1], outputPath),
                 outputPath)

PresetNames ==
    {<<"l","o","s","s","l","e","s","s">>, <<"h","i","g","h">>, <<"m","e","d","i","u","m">>, <<"l","o","w">>, <<"v","e","r","y"," ","l","o","w">>}

\* The video table under every kind
QUALITY_PRESETS_OneTable ==
    [k \in {"video", "audio", "image"} |->
        [p \in PresetNames |->
            CASE p = <<"l","o","s","s","l","e","s","s">> -> <<"0">>
              [] p = <<"h","i","g","h">> -> <<"1","8">>
              [] p = <<"m","e","d","i","u","m">> -> <<"2","3">>
              [] p = <<"l","o","w">> -> <<"2","8">>
              [] p = <<"v","e","r","y"," ","l","o","w">> -> <<"3","3">>]]

QUALITY_PRESETS ==
    [k \in {"video", "audio", "image"} |->
        [p \in PresetNames |->
            CASE k = "video" ->
                    (CASE p = <<"l","o","s","s","l","e","s","s">> -> <<"0">>
                       [] p = <<"h","i","g","h">> -> <<"1","8">>
                       [] p = <<"m","e","d","i","u","m">> -> <<"2","3">>
                       [] p = <<"l","o","w">> -> <<"2","8">>
                       [] p = <<"v","e","r","y"," ","l","o","w">> -> <<"3","3">>)
              [] k = "audio" ->
                    (CASE p = <<"l","o","s","s","l","e","s","s">> -> <<"3","2","0">>
                       [] p = <<"h","i","g","h">> -> <<"2","5","6">>
                       [] p = <<"m","e","d","i","u","m">> -> <<"1","9","2">>
                       [] p = <<"l","o","w">> -> <<"1","2","8">>
                       [] p = <<"v","e","r","y"," ","l","o","w">> -> <<"9","6">>)
              [] k = "image" ->
                    (CASE p = <<"l","o","s","s","l","e","s","s">> -> <<"2">>
                       [] p = <<"h","i","g","h">> -> <<"5">>
                       [] p = <<"m","e","d","i","u","m">> -> <<"1","0">>
                       [] p = <<"l","o","w">> -> <<"1","5">>
                       [] p = <<"v","e","r","y"," ","l","o","w">> -> <<"2","0">>)]]

\* compress
handleSubmit_compress(values, ft) ==
    LET inputPath == InputPathOf(values) IN
    IF inputPath = Undef THEN Threw(PathTypeError)
    ELSE IF ~Truthy(values.quality) /\ ft \notin DOMAIN QUALITY_PRESETS
    THEN \* QUALITY_PRESETS[null] is undefined, and indexing it throws
         Threw(<<"C","a","n","n","o","t"," ","r","e","a","d"," ","p","r","o","p","e","r","t","i","e","s"," ","o","f"," ","u","n","d","e","f","i","n","e","d"," ","(","r","e","a","d","i","n","g"," ","'">>
               \o Tpl(values.preset) \o <<"'",")">>)
    ELSE
    LET extension == extname(inputPath)
        baseFileName == basename(inputPath, extension)
        qualityValue ==
            IF Truthy(values.quality) THEN values.quality
            ELSE QUALITY_PRESETS[ft][values.preset]
        dir == dirname(inputPath)
    IN  CASE ft = "video" ->
                LET outputPath ==
                        join(dir, baseFileName \o <<".","c","r","f">> \o Tpl(qualityValue)
                                  \o extension)
                IN  Compiled(PushOutput(<<<<"-","i">>, inputPath, <<"-","c","r","f">>, qualityValue,
                                          <<"-","p","r","e","s","e","t">>, <<"m","e","d","i","u","m">>>>, outputPath),
                             outputPath)
          [] ft = "audio" ->
                LET outputPath ==
                        join(dir, baseFileName \o <<".">> \o Tpl(qualityValue)
                                  \o <<"k","b","p","s">> \o extension)
                IN  Compiled(PushOutput(<<<<"-","i">>, inputPath, <<"-","b",":","a">>,
                                          Tpl(qualityValue) \o <<"k">>>>, outputPath),
                             outputPath)
          [] ft = "image" ->
                LET outputPath ==
                        join(dir, baseFileName \o <<".","q">> \o Tpl(qualityValue)
                                  \o extension)
                IN  Compiled(PushOutput(<<<<"-","i">>, inputPath, <<"-","q",":","v">>, qualityValue>>,
                                        outputPath),
                             outputPath)
          [] OTHER -> Threw(<<"U","n","s","u","p","p","o","r","t","e","d"," ","f","i","l","e"," ","t","y","p","e">>)

Commands ==
    {"resolution-video", "resize-image", "resize", "speed", "convert", "compress"}

\* A compilation whose output name outlives the handler (declared outside
\* handleSubmit) and so keeps growing from one submission to the next.
CompileKeepingName(c, values, ft) ==
    LET r == CASE c = "resolution-video" -> handleSubmit_resolutionVideo(values)
               [] c = "resize-image" -> handleSubmit_resizeImage(values)
               [] c = "resize" -> handleSubmit_resize(values)
               [] c = "speed" -> handleSubmit_speed(values, ft)
               [] c = "convert" -> handleSubmit_convert(values, ft)
               [] c = "compress" -> handleSubmit_compress(values, ft)
    IN  IF r.threw \/ \A i \in DOMAIN jobs : jobs[i].threw THEN r
        ELSE LET outputPath == r.outputPath \o extname(r.outputPath)
             IN  Compiled(PushOutput(SubSeq(r.argv, 1, Len(r.argv) - 2), outputPath),
                          outputPath)

\* A compilation whose VP9 branch leaves out the target bitrate pair.
CompileBitrateDropped(c, values, ft) ==
    LET r == CASE c = "resolution-video" -> handleSubmit_resolutionVideo(values)
               [] c = "resize-image" -> handleSubmit_resizeImage(values)
               [] c = "resize" -> handleSubmit_resize(values)
               [] c = "speed" -> handleSubmit_speed(values, ft)
               [] c = "convert" -> handleSubmit_convert(values, ft)
               [] c = "compress" -> handleSubmit_compress(values, ft)
        at == {i \in DOMAIN r.argv : r.argv[i] = <<"-","b",":","v">>}
    IN  IF at = {} THEN r
        ELSE LET i == CHOOSE k \in at : TRUE
             IN  [r EXCEPT !.argv = SubSeq(r.argv, 1, i - 1)
                                    \o SubSeq(r.argv, i + 2, Len(r.argv))]

\* A compilation that sends the codec "copy" through the encoder branch.
CompileCopyReencoded(c, values, ft) ==
    IF c = "convert" /\ values.codec = <<"c","o","p","y">>
    THEN handleSubmit_convert([values EXCEPT !.codec = <<"l","i","b","x","2","6","4">>], ft)
    ELSE CASE c = "resolution-video" -> handleSubmit_resolutionVideo(values)
         [] c = "resize-image" -> handleSubmit_resizeImage(values)
         [] c = "resize" -> handleSubmit_resize(values)
         [] c = "speed" -> handleSubmit_speed(values, ft)
         [] c = "convert" -> handleSubmit_convert(values, ft)
         [] c = "compress" -> handleSubmit_compress(values, ft)

\* The compilation of command c from the form values and the fileType state.
Compile(c, values, ft) ==
    CASE c = "resolution-video" -> handleSubmit_resolutionVideo(values)
      [] c = "resize-image" -> handleSubmit_resizeImage(values)
      [] c = "resize" -> handleSubmit_resize(values)
      [] c = "speed" -> handleSubmit_speed(values, ft)
      [] c = "convert" -> handleSubmit_convert(values, ft)
      [] c = "compress" -> handleSubmit_compress(values, ft)

\* ------------------------------------------------------------------------
\* Media kinds: the regular expressions of the clipboard readers and of the
\* file pickers' onChange handlers
\* ------------------------------------------------------------------------
Null == "null"

VideoExts == {<<"m","p","4">>, <<"m","o","v">>, <<"a","v","i">>, <<"m","k","v">>, <<"w","e","b","m">>}
AudioExts == {<<"m","p","3">>, <<"w","a","v">>, <<"a","a","c">>, <<"o","g","g">>, <<"m","4","a">>, <<"f","l","a","c">>}
SpeedAudioExts == {<<"m","p","3">>, <<"m","4","a">>, <<"w","a","v">>, <<"a","a","c">>, <<"o","g","g">>}
ImageExts == {<<"j","p","g">>, <<"j","p","e","g">>, <<"p","n","g">>, <<"g","i","f">>, <<"b","m","p">>, <<"w","e","b","p">>}

\* s.match(/\.(e1|e2|...)$/i)
MatchesExt(s, exts) == \E e \in exts : EndsWith(ToLowerCase(s), <<".">> \o e)

\* The kind the if / else-if chain of command c selects for the string s, or
\* Null when no branch matches.
KindOf(c, s) ==
    CASE c \in {"convert", "compress"} ->
            IF MatchesExt(s, VideoExts) THEN "video"
            ELSE IF MatchesExt(s, AudioExts) THEN "audio"
            ELSE IF MatchesExt(s, ImageExts) THEN "image"
            ELSE Null
      [] c = "speed" ->
            IF MatchesExt(s, VideoExts) THEN "video"
            ELSE IF MatchesExt(s, SpeedAudioExts) THEN "audio"
            ELSE Null
      [] c = "resize" ->
            IF MatchesExt(s, ImageExts) THEN "image"
            ELSE IF MatchesExt(s, VideoExts) THEN "video"
            ELSE Null
      [] c = "resolution-video" ->
            IF MatchesExt(s, VideoExts) THEN "video" ELSE Null
      [] c = "resize-image" ->
            IF MatchesExt(s, ImageExts) THEN "image" ELSE Null

\* The commands that keep a fileType state next to the selected file.
HasFileTypeState(c) == c \in {"resize", "speed", "convert", "compress"}

\* useState initial value of fileType
InitialFileType(c) == IF c = "resize" THEN "image" ELSE Null

\* ------------------------------------------------------------------------
\* The files of the model
\* ------------------------------------------------------------------------
Files ==
    {<<"/","d","/","a",".","m","p","4">>, <<"/","d","/","V",".","M","O","V">>, <<"/","d","/","b",".","m","p","3">>, <<"/","d","/","c",".","p","n","g">>, <<"/","d","/","e",".","f","l","a","c">>,
     <<"/","d","/","n",".","t","x","t">>}

\* The uniform type identifier the system gives a file; the pickers with a
\* types property offer only the files of those types.
UtiOf(f) ==
    IF MatchesExt(f, VideoExts) THEN "public.movie"
    ELSE IF MatchesExt(f, AudioExts) THEN "public.audio"
    ELSE IF MatchesExt(f, ImageExts) THEN "public.image"
    ELSE "public.data"

\* Can the picker of command c, rendered with fileType ft, offer file f?
Pickable(c, ft, f) ==
    CASE c = "resolution-video" -> UtiOf(f) = "public.movie"
      [] c = "resize-image" -> UtiOf(f) = "public.image"
      [] c = "resize" ->
            UtiOf(f) = (IF ft = "image" THEN "public.image" ELSE "public.movie")
      [] c = "speed" ->
            UtiOf(f) = (IF ft = "video" THEN "public.movie" ELSE "public.audio")
      [] OTHER -> TRUE

\* Clipboard.read(): the file URL on the clipboard, Undef when there is none.
ClipboardFiles ==
    {Undef, <<"f","i","l","e",":","/","/","/","d","/","a",".","m","p","4">>, <<"f","i","l","e",":","/","/","/","d","/","c",".","p","n","g">>, <<"f","i","l","e",":","/","/","/","d","/","m","%","2","0","b",".","m","p","3">>,
     <<"f","i","l","e",":","/","/","/","d","/","n",".","t","x","t">>}

\* file.replace(/^file:\/\/\//, "")
StripFileScheme(s) ==
    IF StartsWith(s, <<"f","i","l","e",":","/","/","/">>) THEN SubSeq(s, 9, Len(s)) ELSE s

\* The escapes decodeURIComponent meets in the modelled clipboard contents.
PercentDecoded(hex) ==
    CASE hex = <<"2","0">> -> <<" ">>
      [] hex = <<"2","5">> -> <<"%">>
      [] hex = <<"2","F">> -> <<"/">>
      [] OTHER -> Undef

\* decodeURIComponent; Undef stands for the URIError it throws.
RECURSIVE decodeURIComponent(_)
decodeURIComponent(s) ==
    IF s = <<>> THEN Empty
    ELSE IF s[1] # "%"
    THEN LET rest == decodeURIComponent(Tail(s))
         IN  IF rest = Undef THEN Undef ELSE <<s[1]>> \o rest
    ELSE IF Len(s) < 3 \/ PercentDecoded(SubSeq(s, 2, 3)) = Undef THEN Undef
    ELSE LET rest == decodeURIComponent(SubSeq(s, 4, Len(s)))
         IN  IF rest = Undef THEN Undef
             ELSE PercentDecoded(SubSeq(s, 2, 3)) \o rest

\* ------------------------------------------------------------------------
\* Form values: what Action.SubmitForm passes to handleSubmit.  Only the
\* rendered fields have values; a text field left empty is the empty string.
\* With rich = FALSE the option fields are at their defaults.
\* ------------------------------------------------------------------------
Filters(rich) == IF rich THEN {<<"b","i","c","u","b","i","c">>, <<"l","a","n","c","z","o","s">>} ELSE {<<"b","i","c","u","b","i","c">>}
Presets(rich) == IF rich THEN {<<"m","e","d","i","u","m">>, <<"f","a","s","t">>} ELSE {<<"m","e","d","i","u","m">>}
Checks(rich, default) == IF rich THEN BOOLEAN ELSE {default}
VideoWidths(rich) == IF rich THEN {<<"1","9","2","0">>, <<"8","5","4">>} ELSE {<<"1","9","2","0">>}
ImageWidths(rich) == IF rich THEN {<<"8","0","0">>, <<"i","w","/","2">>, Empty} ELSE {<<"8","0","0">>}
Heights(rich, some) == IF rich THEN {Empty, some} ELSE {Empty}
Qualities(rich, some) == IF rich THEN {Empty, some, <<"a","b","c">>} ELSE {Empty}
Speeds(rich) ==
    IF rich
    THEN {<<"0",".","2","5">>, <<"0",".","5">>, <<"0",".","7","5">>, <<"1",".","5">>, <<"2",".","0">>, <<"3",".","0">>, <<"4",".","0">>}
    ELSE {<<"2",".","0">>}
AudioSpeeds(rich) == IF rich THEN {Empty, <<"1",".","0">>, <<"2">>, <<"a","b","c">>} ELSE {Empty}

Formats(ft, rich) ==
    CASE ft = "video" -> IF rich THEN {<<"m","p","4">>, <<"w","e","b","m">>} ELSE {<<"m","p","4">>}
      [] ft = "audio" -> IF rich THEN {<<"m","p","3">>, <<"w","a","v">>} ELSE {<<"m","p","3">>}
      [] ft = "image" -> IF rich THEN {<<"j","p","g">>, <<"p","n","g">>} ELSE {<<"j","p","g">>}
      [] OTHER -> {Undef}
Codecs(ft, rich) ==
    IF ft # "video" THEN {Undef}
    ELSE IF rich THEN {<<"l","i","b","x","2","6","4">>, <<"l","i","b","x","2","6","5">>, <<"l","i","b","v","p","x","-","v","p","9">>, <<"c","o","p","y">>}
    ELSE {<<"l","i","b","x","2","6","4">>}

FormValues(c, file, ft, rich) ==
    CASE c = "resolution-video" ->
            [inputFile : {file}, width : VideoWidths(rich),
             height : Heights(rich, <<"1","0","8","0">>),
             maintainAspectRatio : Checks(rich, TRUE), preset : Presets(rich),
             filter : Filters(rich), keepAudioBitrate : Checks(rich, TRUE)]
      [] c = "resize-image" ->
            [inputFile : {file}, width : ImageWidths(rich),
             height : Heights(rich, <<"6","0","0">>),
             maintainAspectRatio : Checks(rich, TRUE),
             quality : IF rich THEN {Empty, <<"5">>} ELSE {Empty},
             filter : Filters(rich)]
      [] c = "resize" ->
            IF ft = "image"
            THEN [inputFile : {file}, fileType : {ft}, width : ImageWidths(rich),
                  height : Heights(rich, <<"6","0","0">>),
                  maintainAspectRatio : Checks(rich, TRUE),
                  filter : Filters(rich),
                  quality : IF rich THEN {Empty, <<"5">>} ELSE {Empty},
                  preset : {Undef}, keepAudioBitrate : {FALSE}]
            ELSE [inputFile : {file}, fileType : {ft}, width : VideoWidths(rich),
                  height : {Undef},
                  maintainAspectRatio : Checks(rich, TRUE),
                  filter : Filters(rich), quality : {Undef},
                  preset : Presets(rich), keepAudioBitrate : Checks(rich, TRUE)]
      [] c = "speed" ->
            IF ft = "video"
            THEN [inputFile : {file}, speed : Speeds(rich),
                  customAudioSpeed : AudioSpeeds(rich),
                  maintainPitch : Checks(rich, FALSE)]
            ELSE [inputFile : {file}, speed : Speeds(rich),
                  customAudioSpeed : {Undef}, maintainPitch : {FALSE}]
      [] c = "convert" ->
            IF ft = Null
            THEN [inputFile : {file}, format : {Undef}, codec : {Undef},
                  quality : {Undef}, maintainQuality : {FALSE}]
            ELSE [inputFile : {file}, format : Formats(ft, rich),
                  codec : Codecs(ft, rich), quality : {Undef},
                  maintainQuality : IF rich THEN {TRUE} ELSE {}]
                 \cup
                 [inputFile : {file}, format : Formats(ft, rich),
                  codec : Codecs(ft, rich),
                  quality : Qualities(rich, IF ft = "audio" THEN <<"1","2","8">> ELSE <<"1","8">>),
                  maintainQuality : {FALSE}]
      [] c = "compress" ->
            [inputFile : {file},
             preset : IF rich THEN PresetNames ELSE {<<"m","e","d","i","u","m">>},
             quality : Qualities(rich, <<"3","0">>)]

\* ------------------------------------------------------------------------
\* The external process and the toasts
\* ------------------------------------------------------------------------
FFMPEG_PATH == <<"/","o","p","t","/","h","o","m","e","b","r","e","w","/","b","i","n","/","f","f","m","p","e","g">>

\* error.message of the 'error' event when the binary cannot be started, and
\* the exit code the following 'close' event carries (the negated errno).
LaunchError == <<"s","p","a","w","n"," ">> \o FFMPEG_PATH \o <<" ","E","N","O","E","N","T">>
LaunchExitCodes == {-2}

\* Exit codes of a process that did start.
ExitCodes == {0, 1}

IntToString(i) == IF i < 0 THEN <<"-">> \o NatToString(-i) ELSE NatToString(i)

\* The k-th chunk a process writes to its standard error.
Chunk(k) == <<"e">> \o NatToString(k) \o <<";">>

SuccessToast(job) ==
    [style |-> "Success",
     message |-> <<"C","r","e","a","t","e","d"," ">> \o basename(job.outputPath, Empty)]

FailureToast(message) == [style |-> "Failure", message |-> message]

\* The submission right after the synchronous part of handleSubmit: either it
\* threw and the catch block showed the failure toast, or it awaits the
\* animated toast.  values and ft are the form values and the fileType state
\* it was called with; launched tells whether the binary could be started,
\* received lists the stderr chunks in arrival order, spawned the argument
\* vectors passed to spawn, toasts the final notifications shown.
NewJob(values, ft, c) ==
    [values |-> values, ft |-> ft,
     threw |-> c.threw, argv |-> c.argv, outputPath |-> c.outputPath,
     phase |-> IF c.threw THEN "thrown" ELSE "toast",
     promise |-> "none", launched |-> FALSE,
     stderrData |-> Empty, received |-> <<>>, exitCode |-> <<>>,
     spawned |-> <<>>,
     toasts |-> IF c.threw THEN <<FailureToast(c.error)>> ELSE <<>>]

\* resolve(true), followed by the code after the await: only the first
\* settlement of a promise has an effect.
Resolve(job) ==
    IF job.promise # "pending" THEN job
    ELSE [job EXCEPT !.promise = "resolved",
                     !.toasts = Append(@, SuccessToast(job))]

\* reject(new Error(message)), followed by the catch block
Reject(job, message) ==
    IF job.promise # "pending" THEN job
    ELSE [job EXCEPT !.promise = "rejected",
                     !.toasts = Append(@, FailureToast(message))]

\* A handler that spawns again after a failed process
CanSpawnOrRetry(job) ==
    job.phase = "toast" \/ (job.phase = "closed" /\ job.promise = "rejected")

\* May the submission spawn its process now?
CanSpawn(job) == job.phase = "toast"

\* The argument vector handed to spawn
SpawnArgs(job) == job.argv

\* stderrData = data + stderrData
PrependStderr(stderrData, data) == data \o stderrData

\* stderrData += data
AppendStderr(stderrData, data) == stderrData \o data

\* The body of the 'close' handler
OnCloseBody(job, code) ==
    IF code = 0 THEN Resolve(job)
    ELSE Reject(job, <<"F","F","m","p","e","g"," ","f","a","i","l","e","d"," ","w","i","t","h"," ","c","o","d","e"," ">> \o IntToString(code)
                     \o <<"."," ","E","r","r","o","r",":"," ">> \o job.stderrData)

\* The body of the 'error' handler
OnErrorBody(job, message) ==
    Reject(job, <<"F","a","i","l","e","d"," ","t","o"," ","s","t","a","r","t"," ","F","F","m","p","e","g",":"," ">> \o message)

\* ------------------------------------------------------------------------
\* State machine
\* ------------------------------------------------------------------------
Init ==
    /\ cmd \in Commands
    /\ defaultFile = <<>>
    /\ fileType = InitialFileType(cmd)
    /\ clipboard = "pending"
    /\ jobs = <<>>

\* getClipboardFile, from the resolution of Clipboard.read() on: content is
\* the clipboard's file URL (Undef: none, or the read failed), exists the
\* answer of existsSync.
getClipboardFile(content, exists) ==
    /\ clipboard = "pending"
    /\ clipboard' = "done"
    /\ LET filePath ==
               IF content = Undef THEN Undef
               ELSE decodeURIComponent(StripFileScheme(content))
           subject ==
               IF filePath = Undef THEN Empty
               ELSE IF cmd \in {"speed", "convert", "compress"}
               THEN ToLowerCase(extname(filePath))
               ELSE filePath
           kind == KindOf(cmd, subject)
       IN  IF filePath # Undef /\ exists /\ kind # Null
           THEN /\ defaultFile' = <<filePath>>
                /\ fileType' = IF HasFileTypeState(cmd) THEN kind ELSE fileType
           ELSE UNCHANGED <<defaultFile, fileType>>
    /\ UNCHANGED <<cmd, jobs>>

\* The fileType after the picker's onChange ran with files.  With no file,
\* extname(files[0]) throws after setDefaultFile and fileType keeps its value.
FileTypeAfterChange(c, ft, files) ==
    IF c \in {"speed", "convert", "compress"} /\ files # <<>>
    THEN LET kind == KindOf(c, ToLowerCase(extname(files[1])))
         IN  IF kind # Null THEN kind ELSE ft
    ELSE ft

\* Form.FilePicker onChange
onChange(files) ==
    /\ files # defaultFile
    /\ files # <<>> => Pickable(cmd, fileType, files[1])
    /\ defaultFile' = files
    /\ fileType' = FileTypeAfterChange(cmd, fileType, files)
    /\ UNCHANGED <<cmd, clipboard, jobs>>

\* Form.Dropdown fileType onChange (resize)
setFileType(value) ==
    /\ cmd = "resize"
    /\ value # fileType
    /\ fileType' = value
    /\ UNCHANGED <<cmd, defaultFile, clipboard, jobs>>

\* handleSubmit up to its first await, for at most cap submissions
Submit(rich, cap) ==
    /\ Len(jobs) < cap
    /\ \E values \in FormValues(cmd, defaultFile, fileType, rich) :
          jobs' = Append(jobs, NewJob(values, fileType,
                                      Compile(cmd, values, fileType)))
    /\ UNCHANGED <<cmd, defaultFile, fileType, clipboard>>

\* spawn(FFMPEG_PATH, args) and the registration of the three handlers
Spawn(i, launched) ==
    /\ CanSpawn(jobs[i])
    /\ jobs' = [jobs EXCEPT ![i] =
                   [@ EXCEPT !.phase = IF launched THEN "running" ELSE "failing",
                             !.promise = "pending",
                             !.launched = launched,
                             !.spawned = Append(@, SpawnArgs(jobs[i]))]]
    /\ UNCHANGED <<cmd, defaultFile, fileType, clipboard>>

\* ffmpeg.stderr.on('data')
onStderrData(i) ==
    /\ jobs[i].phase = "running"
    /\ Len(jobs[i].received) < MaxChunks
    /\ LET data == Chunk(Len(jobs[i].received) + 1)
       IN  jobs' = [jobs EXCEPT ![i] =
                       [@ EXCEPT !.stderrData = AppendStderr(@, data),
                                 !.received = Append(@, data)]]
    /\ UNCHANGED <<cmd, defaultFile, fileType, clipboard>>

\* ffmpeg.on('error')
onError(i) ==
    /\ jobs[i].phase = "failing"
    /\ jobs' = [jobs EXCEPT ![i] =
                   [OnErrorBody(jobs[i], LaunchError) EXCEPT !.phase = "errored"]]
    /\ UNCHANGED <<cmd, defaultFile, fileType, clipboard>>

\* ffmpeg.on('close')
onClose(i, code) ==
    /\ \/ jobs[i].phase = "running" /\ code \in ExitCodes
       \/ jobs[i].phase = "errored" /\ code \in LaunchExitCodes
    /\ jobs' = [jobs EXCEPT ![i] =
                   [OnCloseBody(jobs[i], code) EXCEPT !.phase = "closed",
                                                      !.exitCode = <<code>>]]
    /\ UNCHANGED <<cmd, defaultFile, fileType, clipboard>>

ProcessStep ==
    \E i \in DOMAIN jobs :
        \/ \E launched \in BOOLEAN : Spawn(i, launched)
        \/ onStderrData(i)
        \/ onError(i)
        \/ \E code \in ExitCodes \cup LaunchExitCodes : onClose(i, code)

FormStep ==
    \/ \E content \in ClipboardFiles, exists \in BOOLEAN :
           getClipboardFile(content, exists)
    \/ \E files \in {<<>>} \cup {<<f>> : f \in Files} : onChange(files)
    \/ \E value \in {"image", "video"} : setFileType(value)

\* One submission of any option values; the form is left alone while the
\* submission is in flight.  (Every action on a submission reads and writes
\* the record of that submission only, so what holds of one submission here
\* holds of each of several.)
Next ==
    \/ jobs = <<>> /\ FormStep
    \/ Submit(TRUE, 1)
    \/ ProcessStep

Spec == Init /\ [][Next]_vars

\* The form alone: clipboard read, file picker and file-type dropdown.
SpecForm == Init /\ [][FormStep]_vars

\* The form and the synchronous part of up to MaxJobs submissions of default
\* option values (no process has been scheduled yet).
NextHistory ==
    \/ FormStep
    \/ Submit(FALSE, MaxJobs)

SpecHistory == Init /\ [][NextHistory]_vars

\* Up to MaxJobs submissions of default option values together with their
\* processes: handleSubmit does not disable the form, so a submission can
\* be made while the process of an earlier one is running.
NextConcurrent ==
    \/ jobs = <<>> /\ FormStep
    \/ Submit(FALSE, MaxJobs)
    \/ ProcessStep

SpecConcurrent == Init /\ [][NextConcurrent]_vars

\* ------------------------------------------------------------------------
\* Vocabulary of the properties
\* ------------------------------------------------------------------------
JobSet == {jobs[i] : i \in DOMAIN jobs}

CompiledJobs == {j \in JobSet : ~j.threw}

InputPath(j) == j.values.inputFile[1]

\* The output file name and the base name of the input
OutputName(j) == basename(j.outputPath, Empty)
InputBase(j) == basename(InputPath(j), extname(InputPath(j)))

\* A decimal number: digits with at most one point, and nothing else.
IsValidNumber(v) ==
    /\ v # Undef
    /\ LET ni == DigitRun(v, 1)
           hasDot == Len(v) > ni /\ v[ni + 1] = "."
           nf == IF hasDot THEN DigitRun(v, ni + 2) ELSE 0
       IN  /\ ni + nf > 0
           /\ Len(v) = ni + nf + (IF hasDot THEN 1 ELSE 0)

Supplied(v) == v # Undef /\ v # Empty

IsRescale == cmd \in {"resolution-video", "resize-image", "resize"}

\* The media kind a rescale submission works on
RescaleKind(j) ==
    CASE cmd = "resolution-video" -> "video"
      [] cmd = "resize-image" -> "image"
      [] cmd = "resize" -> j.values.fileType

\* Is a numeric option of the submission missing where required, or not a
\* number?
Malformed(j) ==
    CASE IsRescale ->
            \/ ~IsValidNumber(j.values.width)
            \/ /\ ~j.values.maintainAspectRatio
               /\ j.values.height # Undef
               /\ ~IsValidNumber(j.values.height)
            \/ /\ RescaleKind(j) = "image"
               /\ Supplied(j.values.quality) /\ ~IsValidNumber(j.values.quality)
      [] cmd = "speed" ->
            \/ ~IsValidNumber(j.values.speed)
            \/ /\ Supplied(j.values.customAudioSpeed)
               /\ ~IsValidNumber(j.values.customAudioSpeed)
      [] OTHER ->
            Supplied(j.values.quality) /\ ~IsValidNumber(j.values.quality)

\* Is an option of the submission off its default, or is it a Convert with
\* codec copy, or with the format of the input and no quality?
OffDefault(j) ==
    \/ j.values \notin FormValues(cmd, j.values.inputFile, j.ft, FALSE)
    \/ /\ cmd = "convert"
       /\ \/ j.values.codec = <<"c","o","p","y">>
          \/ /\ <<".">> \o Tpl(j.values.format) = extname(InputPath(j))
             /\ ~Supplied(j.values.quality)

RECURSIVE Concat(_)
Concat(chunks) ==
    IF chunks = <<>> THEN Empty ELSE Head(chunks) \o Concat(Tail(chunks))

\* ------------------------------------------------------------------------
\* C1: every argument vector passed to spawn begins with -i and the input
\* path and ends with -y and the output path.
\* ------------------------------------------------------------------------
C1_ArgvFramed ==
    \A j \in JobSet : \A k \in DOMAIN j.spawned :
        LET a == j.spawned[k]
        IN  /\ Len(a) >= 4
            /\ a[1] = <<"-","i">>
            /\ a[2] = InputPath(j)
            /\ a[Len(a) - 1] = <<"-","y">>
            /\ a[Len(a)] = j.outputPath

\* A process was spawned with option arguments between the two pairs.
C1_Witness ==
    \E j \in JobSet : j.spawned # <<>> /\ Len(j.spawned[1]) > 6

\* ------------------------------------------------------------------------
\* C2: the output path lies in the directory of the input path, and differs
\* from the input path whenever an option is off its default, and also for
\* Convert with codec copy or with the input's own format and no quality.
\* (Stated for the submissions whose numeric options are well formed.)
\* ------------------------------------------------------------------------
C2_OutputBesideAndDistinct ==
    \A j \in CompiledJobs :
        ~Malformed(j)
        => /\ dirname(j.outputPath) = dirname(InputPath(j))
           /\ OffDefault(j) => j.outputPath # InputPath(j)

C4_OneSpawn ==
    \A j \in JobSet :
        /\ j.threw => j.spawned = <<>>
        /\ j.phase = "toast" => j.spawned = <<>>
        /\ j.phase \notin {"thrown", "toast"} => j.spawned = <<j.argv>>

\* A process that failed, with its one spawn.
C4_Witness ==
    \E j \in JobSet :
        j.phase = "closed" /\ j.promise = "rejected" /\ j.spawned = <<j.argv>>

\* ------------------------------------------------------------------------
\* C5: a submission shows at most one final toast and exactly one once it is
\* settled: success exactly when the process closed with code 0, otherwise
\* a failure carrying the exit code and the stderr chunks in arrival order,
\* or the launch error; a close after an error adds nothing.
\* ------------------------------------------------------------------------
C5_OneOutcome ==
    \A j \in JobSet :
        /\ Len(j.toasts) <= 1
        /\ j.phase \in {"toast", "failing", "running"} => j.toasts = <<>>
        /\ j.phase = "thrown"
           => Len(j.toasts) = 1 /\ j.toasts[1].style = "Failure"
        /\ j.phase \in {"errored", "closed"} /\ ~j.launched
           => j.toasts = <<FailureToast(<<"F","a","i","l","e","d"," ","t","o"," ","s","t","a","r","t"," ","F","F","m","p","e","g",":"," ">> \o LaunchError)>>
        /\ j.phase = "closed" /\ j.launched /\ j.exitCode = <<0>>
           => j.toasts = <<[style |-> "Success",
                            message |-> <<"C","r","e","a","t","e","d"," ">> \o OutputName(j)]>>
        /\ j.phase = "closed" /\ j.launched /\ j.exitCode # <<0>>
           => j.toasts = <<FailureToast(<<"F","F","m","p","e","g"," ","f","a","i","l","e","d"," ","w","i","t","h"," ","c","o","d","e"," ">>
                                        \o IntToString(j.exitCode[1])
                                        \o <<"."," ","E","r","r","o","r",":"," ">> \o Concat(j.received))>>

\* A process that wrote every chunk it could and exited with a failure.
C5_Witness ==
    \E j \in JobSet :
        /\ j.phase = "closed" /\ j.launched /\ j.exitCode = <<1>>
        /\ Len(j.received) = MaxChunks

\* ------------------------------------------------------------------------
\* C6: in compress, convert and speed a submission made while the media kind
\* is undetermined spawns no process and shows only a failure.
\* ------------------------------------------------------------------------
C6_UndeterminedKindFails ==
    \A j \in JobSet :
        (cmd \in {"compress", "convert", "speed"} /\ j.ft = Null)
        => /\ j.spawned = <<>>
           /\ \A k \in DOMAIN j.toasts : j.toasts[k].style = "Failure"

\* ------------------------------------------------------------------------
\* C7: a submission with a missing or malformed numeric option spawns no
\* process.
\* ------------------------------------------------------------------------
C7_MalformedNumberRejected ==
    \A j \in JobSet : Malformed(j) => j.spawned = <<>>

\* ------------------------------------------------------------------------
\* C8: in convert, compress and speed the fileType state is the kind of the
\* selected file's extension, and undetermined when the extension is in no
\* set.
\* ------------------------------------------------------------------------
C8_KindFollowsSelection ==
    (cmd \in {"convert", "compress", "speed"} /\ defaultFile # <<>>)
    => fileType = KindOf(cmd, ToLowerCase(extname(defaultFile[1])))

\* ------------------------------------------------------------------------
\* C9: a rescale that maintains the aspect ratio, with a numeric width W and
\* filter F, passes scale=W:-2:flags=F and names the file <base>.Wp... for
\* video, and passes scale=W:-1:flags=F and names it <base>.Ww... for image.
\* ------------------------------------------------------------------------
C9_AspectRatioKept ==
    \A j \in CompiledJobs :
        (IsRescale /\ j.values.maintainAspectRatio /\ IsValidNumber(j.values.width))
        => LET w == j.values.width
               video == RescaleKind(j) = "video"
               auto == IF video THEN <<":","-","2",":","f","l","a","g","s","=">> ELSE <<":","-","1",":","f","l","a","g","s","=">>
               mark == IF video THEN <<"p">> ELSE <<"w">>
           IN  /\ j.argv[3] = <<"-","v","f">>
               /\ j.argv[4] = <<"s","c","a","l","e","=">> \o w \o auto \o j.values.filter
               /\ StartsWith(OutputName(j),
                             InputBase(j) \o <<".">> \o w \o mark \o <<".">>)

\* The unified command compiled such a rescale of an image.
C9_Witness ==
    \E j \in CompiledJobs :
        /\ cmd = "resize" /\ j.values.fileType = "image"
        /\ j.values.maintainAspectRatio /\ IsValidNumber(j.values.width)
        /\ j.values.filter = <<"l","a","n","c","z","o","s">>

\* ------------------------------------------------------------------------
\* C10: a rescale that does not maintain the aspect ratio, with width W and
\* height H, passes scale=W:H:flags=F and names the file <base>.WxH..., for
\* video and image, in the legacy commands and in the unified one.
\* ------------------------------------------------------------------------
C10_ExplicitSize ==
    \A j \in CompiledJobs :
        (/\ IsRescale /\ ~j.values.maintainAspectRatio
         /\ IsValidNumber(j.values.width)
         /\ j.values.height = Undef \/ IsValidNumber(j.values.height))
        => LET w == j.values.width
               h == Tpl(j.values.height)
           IN  /\ j.argv[4] = <<"s","c","a","l","e","=">> \o w \o <<":">> \o h \o <<":","f","l","a","g","s","=">>
                              \o j.values.filter
               /\ StartsWith(OutputName(j),
                             InputBase(j) \o <<".">> \o w \o <<"x">> \o h \o <<".">>)

\* The speed submissions on video whose numbers are well formed
SpeedVideoJobs ==
    {j \in CompiledJobs : cmd = "speed" /\ j.ft = "video" /\ ~Malformed(j)}

\* The audio speed of a speed submission: the custom one if supplied
AudioSpeedOf(j) ==
    IF Supplied(j.values.customAudioSpeed)
    THEN parseFloat(j.values.customAudioSpeed) ELSE parseFloat(j.values.speed)

\* ------------------------------------------------------------------------
\* C11: speed on video without maintain-pitch passes -filter:v
\* setpts={1/speed}*PTS and -filter:a atempo={audioSpeed}, the audio speed
\* being the custom one if supplied and the video speed otherwise; the file
\* is named <base>.{speed}x, then .a{audioSpeed}x exactly when the two
\* numbers differ, then the extension.  Speed 2.0 alone gives setpts=0.5*PTS,
\* atempo=2 and suffix 2x.
\* ------------------------------------------------------------------------
C11_SpeedFilters ==
    \A j \in SpeedVideoJobs :
        ~j.values.maintainPitch
        => LET speed == parseFloat(j.values.speed)
               audioSpeed == AudioSpeedOf(j)
               suffix ==
                   NumToString(speed) \o <<"x">>
                   \o (IF audioSpeed # speed
                       THEN <<".","a">> \o NumToString(audioSpeed) \o <<"x">> ELSE Empty)
           IN  /\ j.argv = <<<<"-","i">>, InputPath(j),
                             <<"-","f","i","l","t","e","r",":","v">>,
                             <<"s","e","t","p","t","s","=">> \o NumToString(Reciprocal(speed)) \o <<"*","P","T","S">>,
                             <<"-","f","i","l","t","e","r",":","a">>, <<"a","t","e","m","p","o","=">> \o NumToString(audioSpeed),
                             <<"-","y">>, j.outputPath>>
               /\ OutputName(j)
                  = InputBase(j) \o <<".">> \o suffix \o extname(InputPath(j))
               /\ (j.values.speed = <<"2",".","0">> /\ ~Supplied(j.values.customAudioSpeed))
                  => /\ j.argv[4] = <<"s","e","t","p","t","s","=","0",".","5","*","P","T","S">>
                     /\ j.argv[6] = <<"a","t","e","m","p","o","=","2">>
                     /\ OutputName(j)
                        = InputBase(j) \o <<".","2","x">> \o extname(InputPath(j))
               /\ (j.values.speed = <<"2",".","0">> /\ j.values.customAudioSpeed = <<"2">>)
                  => OutputName(j)
                     = InputBase(j) \o <<".","2","x">> \o extname(InputPath(j))

\* A video slowed to 0.75 with its audio kept at 1.0: the reciprocal does not
\* terminate and the audio suffix is due.
C11_Witness ==
    \E j \in SpeedVideoJobs :
        /\ ~j.values.maintainPitch
        /\ j.values.speed = <<"0",".","7","5">> /\ j.values.customAudioSpeed = <<"1",".","0">>
        /\ j.argv[4] = <<"s","e","t","p","t","s","=","1",".","3","3","3","3","3","3","3","3","3","3","3","3","3","3","3","3","*","P","T","S">>
        /\ OutputName(j) = InputBase(j) \o <<".","0",".","7","5","x",".","a","1","x">> \o extname(InputPath(j))

\* The sample rate of the audio stream of each input file, in Hz: a fact of
\* the file, which no command reads.
SampleRateOf(path) == IF path = <<"/","d","/","V",".","M","O","V">> THEN 48000 ELSE 44100

\* ------------------------------------------------------------------------
\* C12: speed on video with maintain-pitch passes an audio filter chain that
\* sets the rate to the input's sample rate times the audio speed and then
\* resamples to the input's sample rate (asetrate=44100*2,aresample=44100
\* for a 44100 Hz input at speed 2), never the plain atempo={audioSpeed},
\* and the file name ends with .pitch before the extension.
\* ------------------------------------------------------------------------
C12_PitchChain ==
    \A j \in SpeedVideoJobs :
        j.values.maintainPitch
        => LET rate == NatToString(SampleRateOf(InputPath(j)))
               audioSpeed == NumToString(AudioSpeedOf(j))
           IN  /\ j.argv[5] = <<"-","f","i","l","t","e","r",":","a">>
               /\ StartsWith(j.argv[6],
                             <<"a","s","e","t","r","a","t","e","=">> \o rate \o <<"*">> \o audioSpeed
                             \o <<",","a","r","e","s","a","m","p","l","e","=">> \o rate)
               /\ j.argv[6] # <<"a","t","e","m","p","o","=">> \o audioSpeed
               /\ EndsWith(OutputName(j), <<".","p","i","t","c","h">> \o extname(InputPath(j)))

\* The pieces of s between occurrences of the character c
RECURSIVE SplitAt(_, _)
SplitAt(s, c) ==
    IF \A i \in DOMAIN s : s[i] # c THEN <<s>>
    ELSE LET i == CHOOSE k \in DOMAIN s : s[k] = c /\ \A m \in 1..(k - 1) : s[m] # c
         IN  <<SubSeq(s, 1, i - 1)>> \o SplitAt(SubSeq(s, i + 1, Len(s)), c)

\* The factors of the atempo filters in a filter argument
TempoFactors(arg) ==
    LET pieces == SplitAt(arg, ",")
    IN  {parseFloat(SubSeq(pieces[i], 8, Len(pieces[i]))) :
            i \in {k \in DOMAIN pieces : StartsWith(pieces[k], <<"a","t","e","m","p","o","=">>)}}

\* 0.5 <= x <= 2.0
InTempoRange(x) == x.kind = "num" /\ 2 * x.n >= x.d /\ x.n <= 2 * x.d

\* ------------------------------------------------------------------------
\* C13: speed on an audio input never spawns a process with an atempo filter
\* whose factor is outside 0.5 to 2.0: the submission is rejected or the
\* factor is spread over a chain of atempo filters each within the range.
\* ------------------------------------------------------------------------
C13_TempoInRange ==
    \A j \in JobSet :
        (cmd = "speed" /\ j.ft = "audio")
        => \A k \in DOMAIN j.spawned : \A a \in DOMAIN j.spawned[k] :
               \A x \in TempoFactors(j.spawned[k][a]) : InTempoRange(x)

\* The compress submissions of a determined kind with a well-formed quality
CompressJobs ==
    {j \in CompiledJobs :
        cmd = "compress" /\ j.ft \in {"video", "audio", "image"} /\ ~Malformed(j)}

\* ------------------------------------------------------------------------
\* C14: compress takes as its quality the value typed when there is one, and
\* otherwise the entry of the table for the kind and the preset (video/medium
\* 23, audio/medium 192, image/medium 10); it passes -crf v for video,
\* -b:a vk for audio, -q:v v for image, and names the file <base>.crf{v},
\* <base>.{v}kbps, <base>.q{v}, with the extension of the input.
\* ------------------------------------------------------------------------
C14_CompressQuality ==
    \A j \in CompressJobs :
        LET v == IF Supplied(j.values.quality) THEN j.values.quality
                 ELSE QUALITY_PRESETS[j.ft][j.values.preset]
            ext == extname(InputPath(j))
            byDefault == ~Supplied(j.values.quality) /\ j.values.preset = <<"m","e","d","i","u","m">>
        IN  /\ j.ft = "video"
               => /\ j.argv[3] = <<"-","c","r","f">> /\ j.argv[4] = v
                  /\ OutputName(j) = InputBase(j) \o <<".","c","r","f">> \o v \o ext
                  /\ byDefault => v = <<"2","3">>
            /\ j.ft = "audio"
               => /\ j.argv[3] = <<"-","b",":","a">> /\ j.argv[4] = v \o <<"k">>
                  /\ OutputName(j) = InputBase(j) \o <<".">> \o v \o <<"k","b","p","s">> \o ext
                  /\ byDefault => v = <<"1","9","2">>
            /\ j.ft = "image"
               => /\ j.argv[3] = <<"-","q",":","v">> /\ j.argv[4] = v
                  /\ OutputName(j) = InputBase(j) \o <<".","q">> \o v \o ext
                  /\ byDefault => v = <<"1","0">>

\* A typed quality took precedence over a preset other than the default.
C14_Witness ==
    \E j \in CompressJobs :
        /\ j.ft = "audio"
        /\ j.values.quality = <<"3","0">> /\ j.values.preset = <<"h","i","g","h">>
        /\ j.argv[4] = <<"3","0","k">>

\* The convert submissions on video
ConvertVideoJobs == {j \in CompiledJobs : cmd = "convert" /\ j.ft = "video"}

\* Do the tokens of run occur in argv one after the other?
ContainsRun(argv, run) ==
    \E i \in 1..(Len(argv) - Len(run) + 1) :
        SubSeq(argv, i, i + Len(run) - 1) = run

\* How many times does the token t occur in argv?
CountToken(argv, t) == Cardinality({i \in DOMAIN argv : argv[i] = t})

\* The file name convert gives for a suffix: <base><suffix>.<format>
ConvertName(j, suffix) ==
    InputBase(j) \o suffix \o <<".">> \o Tpl(j.values.format)

\* ------------------------------------------------------------------------
\* C15: convert on video with codec libx264 or libx265.  With maximum
\* quality the argv contains -crf 0 -preset veryslow, the name is
\* <base>.{codec}.lossless.<format>, and a quality value changes nothing.
\* Without it the argv contains -crf {quality}, 23 when the field is empty,
\* and the name is <base>.{codec}.q{quality}.<format>.
\* ------------------------------------------------------------------------
C15_X26xQuality ==
    \A j \in ConvertVideoJobs :
        j.values.codec \in {<<"l","i","b","x","2","6","4">>, <<"l","i","b","x","2","6","5">>}
        => LET codec == j.values.codec
               q == IF Supplied(j.values.quality) THEN j.values.quality ELSE <<"2","3">>
           IN  /\ ContainsRun(j.argv, <<<<"-","c",":","v">>, codec>>)
               /\ CountToken(j.argv, <<"-","c","r","f">>) = 1
               /\ j.values.maintainQuality
                  => /\ ContainsRun(j.argv, <<<<"-","c","r","f">>, <<"0">>, <<"-","p","r","e","s","e","t">>, <<"v","e","r","y","s","l","o","w">>>>)
                     /\ OutputName(j) = ConvertName(j, <<".">> \o codec \o <<".","l","o","s","s","l","e","s","s">>)
                     /\ \A typed \in {Empty, <<"1","8">>, <<"5","1">>} :
                            Compile(cmd, [j.values EXCEPT !.quality = typed], j.ft)
                            = Compile(cmd, j.values, j.ft)
               /\ ~j.values.maintainQuality
                  => /\ ContainsRun(j.argv, <<<<"-","c","r","f">>, q>>)
                     /\ OutputName(j) = ConvertName(j, <<".">> \o codec \o <<".","q">> \o q)

\* A lossless H.265 conversion into another container was compiled.
C15_Witness ==
    \E j \in ConvertVideoJobs :
        /\ j.values.codec = <<"l","i","b","x","2","6","5">> /\ j.values.maintainQuality
        /\ j.values.format = <<"w","e","b","m">>
        /\ OutputName(j) = InputBase(j) \o <<".","l","i","b","x","2","6","5",".","l","o","s","s","l","e","s","s",".","w","e","b","m">>

\* Is the submission a convert on video with the VP9 codec?
IsVp9(j) == cmd = "convert" /\ j.ft = "video" /\ j.values.codec = <<"l","i","b","v","p","x","-","v","p","9">>

\* ------------------------------------------------------------------------
\* C16: convert on video with the VP9 codec passes -b:v 0 together with
\* exactly one -crf value: 0 with maximum quality, otherwise the quality
\* typed, 30 when the field is empty.  No other branch passes -b:v.
\* ------------------------------------------------------------------------
C16_Vp9ZeroBitrate ==
    \A j \in CompiledJobs :
        /\ IsVp9(j)
           => LET crf == IF j.values.maintainQuality THEN <<"0">>
                         ELSE IF Supplied(j.values.quality) THEN j.values.quality
                         ELSE <<"3","0">>
              IN  /\ ContainsRun(j.argv, <<<<"-","b",":","v">>, <<"0">>>>)
                  /\ CountToken(j.argv, <<"-","b",":","v">>) = 1
                  /\ CountToken(j.argv, <<"-","c","r","f">>) = 1
                  /\ ContainsRun(j.argv, <<<<"-","c","r","f">>, crf>>)
        /\ (cmd = "convert" /\ ~IsVp9(j)) => CountToken(j.argv, <<"-","b",":","v">>) = 0

\* A VP9 conversion with the quality field left empty was compiled.
C16_Witness ==
    \E j \in CompiledJobs :
        /\ IsVp9(j) /\ ~j.values.maintainQuality /\ j.values.quality = Empty
        /\ ContainsRun(j.argv, <<<<"-","b",":","v">>, <<"0">>, <<"-","c","r","f">>, <<"3","0">>>>)

\* ------------------------------------------------------------------------
\* C17: convert on video with codec copy, for every format, quality and
\* maximum-quality setting, passes -c:v copy and none of -crf, -preset,
\* -b:v, and the output path has the extension of the target format.
\* ------------------------------------------------------------------------
C17_CopyBypassesEncoding ==
    \A j \in ConvertVideoJobs :
        j.values.codec = <<"c","o","p","y">>
        => /\ ContainsRun(j.argv, <<<<"-","c",":","v">>, <<"c","o","p","y">>>>)
           /\ \A t \in {<<"-","c","r","f">>, <<"-","p","r","e","s","e","t">>, <<"-","b",":","v">>} : CountToken(j.argv, t) = 0
           /\ extname(j.outputPath) = <<".">> \o j.values.format
           /\ dirname(j.outputPath) = dirname(InputPath(j))

\* A copy into another container, with a quality typed.
C17_Witness ==
    \E j \in ConvertVideoJobs :
        /\ j.values.codec = <<"c","o","p","y">> /\ j.values.quality = <<"1","8">>
        /\ j.values.format = <<"w","e","b","m">> /\ extname(InputPath(j)) # <<".","w","e","b","m">>

\* Is the media kind determined where the command depends on it?
KindDetermined(j) ==
    cmd \in {"convert", "compress", "speed"} => j.ft # Null

\* ------------------------------------------------------------------------
\* C18: the output file name is the base name of the input, then at least
\* one dot-separated suffix token, then the extension of the input (rescale,
\* speed, compress) or of the target format (convert).
\* ------------------------------------------------------------------------
C18_NameHasSuffixToken ==
    \A j \in CompiledJobs :
        (KindDetermined(j) /\ ~Malformed(j))
        => LET ext == IF cmd = "convert" THEN <<".">> \o Tpl(j.values.format)
                      ELSE extname(InputPath(j))
               name == OutputName(j)
           IN  /\ StartsWith(name, InputBase(j) \o <<".">>)
               /\ EndsWith(name, ext)
               /\ Len(name) >= Len(InputBase(j)) + 2 + Len(ext)

\* The rescale submissions
RescaleJobs == {j \in CompiledJobs : IsRescale}

\* ------------------------------------------------------------------------
\* C19: a rescale on video passes -c:a copy exactly when audio bitrate
\* preservation is requested, always passes -preset {preset}, and has
\* .{preset} before the extension exactly when the preset is not medium; a
\* rescale on image passes -q:v {quality} and has .q{quality} before the
\* extension exactly when a quality was typed.
\* ------------------------------------------------------------------------
C19_RescaleOptions ==
    \A j \in RescaleJobs :
        LET name == OutputName(j)
            ext == extname(InputPath(j))
        IN  /\ RescaleKind(j) = "video"
               => /\ ContainsRun(j.argv, <<<<"-","c",":","a">>, <<"c","o","p","y">>>>)
                     <=> j.values.keepAudioBitrate
                  /\ CountToken(j.argv, <<"-","c",":","a">>)
                     = (IF j.values.keepAudioBitrate THEN 1 ELSE 0)
                  /\ ContainsRun(j.argv, <<<<"-","p","r","e","s","e","t">>, j.values.preset>>)
                  /\ EndsWith(name, <<".">> \o j.values.preset \o ext)
                     <=> j.values.preset # <<"m","e","d","i","u","m">>
            /\ RescaleKind(j) = "image"
               => IF Supplied(j.values.quality)
                  THEN /\ ContainsRun(j.argv, <<<<"-","q",":","v">>, j.values.quality>>)
                       /\ CountToken(j.argv, <<"-","q",":","v">>) = 1
                       /\ EndsWith(name, <<".","q">> \o j.values.quality \o ext)
                  ELSE /\ CountToken(j.argv, <<"-","q",":","v">>) = 0
                       /\ ~ContainsRun(name, <<".","q">>)

\* The unified command compiled a video rescale with a faster preset and
\* without the audio copy.
C19_Witness ==
    \E j \in RescaleJobs :
        /\ cmd = "resize" /\ j.values.fileType = "video"
        /\ j.values.preset = <<"f","a","s","t">> /\ ~j.values.keepAudioBitrate
        /\ CountToken(j.argv, <<"-","c",":","a">>) = 0

\* The values the unified resize form would hand over for the options of a
\* submission of one of the two legacy commands.
AsUnified(values) ==
    IF cmd = "resolution-video"
    THEN [inputFile |-> values.inputFile, fileType |-> "video",
          width |-> values.width, height |-> values.height,
          maintainAspectRatio |-> values.maintainAspectRatio,
          filter |-> values.filter, quality |-> Undef,
          preset |-> values.preset, keepAudioBitrate |-> values.keepAudioBitrate]
    ELSE [inputFile |-> values.inputFile, fileType |-> "image",
          width |-> values.width, height |-> values.height,
          maintainAspectRatio |-> values.maintainAspectRatio,
          filter |-> values.filter, quality |-> values.quality,
          preset |-> Undef, keepAudioBitrate |-> FALSE]

\* ------------------------------------------------------------------------
\* C20: for every input path, width, height, maintain-aspect-ratio, filter,
\* preset, keep-audio-bitrate and quality, the unified resize with fileType
\* video compiles the argv and output path of resolution-video, and with
\* fileType image those of resize-image.
\* ------------------------------------------------------------------------
C20_UnifiedEqualsLegacy ==
    \A j \in CompiledJobs :
        (cmd \in {"resolution-video", "resize-image"} /\ ~Malformed(j))
        => LET unified == Compile("resize", AsUnified(j.values), j.ft)
           IN  /\ ~unified.threw
               /\ unified.argv = j.argv
               /\ unified.outputPath = j.outputPath

\* ------------------------------------------------------------------------
\* C21: the clipboard read only pre-populates.  Whenever it completes after
\* the user has selected a file, it leaves the selected file and the media
\* kind as they are.
\* ------------------------------------------------------------------------
C21_ClipboardOnlyPrepopulates ==
    [][(clipboard = "pending" /\ clipboard' = "done" /\ defaultFile # <<>>)
       => (defaultFile' = defaultFile /\ fileType' = fileType)]_vars

\* Is the process of the submission running: spawned and not yet closed?
Running(j) == j.launched /\ j.phase = "running"

\* ------------------------------------------------------------------------
\* C22: no two processes that write the same output path are running at the
\* same time, whatever the sequence of submissions of the form.
\* ------------------------------------------------------------------------
C22_NoTwoProcessesOnOneOutput ==
    \A a, b \in DOMAIN jobs :
        (a # b /\ Running(jobs[a]) /\ Running(jobs[b]))
        => jobs[a].outputPath # jobs[b].outputPath
====
